---- MODULE Spec2Model ----
(***************************************************************************)
(* The chat session of nuxt-ai-chatbot: the useChat composable (message    *)
(* list, pending and error flags, one abort controller), its streaming     *)
(* read loop with the event-stream line parser and the markdown            *)
(* post-processing, and the /api/chat handler with its streaming paths.    *)
(*                                                                         *)
(* Text is a sequence of tokens.  A token is one character ("\n", "\r",    *)
(* " ", the backtick) or an indivisible piece of text ("data:", "Hel", a   *)
(* JSON document).  A response body is a sequence of bytes; every token is *)
(* one byte except the character "U+00E9", which travels as the two bytes  *)
(* "0xC3" and "0xA9".                                                      *)
(*                                                                         *)
(* One action is one synchronous run of JavaScript: a call of send() or    *)
(* reset(), or the continuation of one await of a running send().          *)
(***************************************************************************)
EXTENDS Integers, Sequences, FiniteSets, TLC

\* ------------------------------------------------------------------ bounds
\* Number of send() calls that get past the guard in one behaviour.
MaxReq == 2
\* Largest number of bytes the transport hands over in one chunk.
MaxCut == 3
\* Longest buffer of separator characters given to the event splitter.
MaxBuf == 6
\* Largest number of pieces a text given to postProcessMarkdown is made of.
MaxBlocks == 5

\* ------------------------------------------------------- program constants
\* opts.maxHistory ?? 10
DefaultMaxHistory == 10
\* serverMsg.substring(0, 200)
ErrBodyLimit == 200

\* --------------------------------------------------------------- JS values
\* null / undefined of a configuration option
Undefined == -1
\* error.value = null (an error message is a text)
Null == <<"<null>">>

\* ------------------------------------------------------------ text helpers
Min(a, b) == IF a < b THEN a ELSE b
Max(a, b) == IF a > b THEN a ELSE b

\* String.prototype.trim: white space and line terminators
WhiteSpace == {" ", "\t", "\n", "\r"}

RECURSIVE TrimStart(_)
TrimStart(s) ==
    IF s # <<>> /\ Head(s) \in WhiteSpace THEN TrimStart(Tail(s)) ELSE s

RECURSIVE TrimEnd(_)
TrimEnd(s) ==
    IF s # <<>> /\ s[Len(s)] \in WhiteSpace
    THEN TrimEnd(SubSeq(s, 1, Len(s) - 1))
    ELSE s

Trim(s) == TrimEnd(TrimStart(s))

\* s.slice(i) with 1-based i
Drop(s, n) == SubSeq(s, n + 1, Len(s))

\* ------------------------------------------------- postProcessMarkdown
\* the backtick character
BT == "bt"

RECURSIVE FenceCountFrom(_, _)
\* the number of matches of the fence pattern (three backticks):
\* non-overlapping, left to right
FenceCountFrom(s, i) ==
    IF i + 2 > Len(s) THEN 0
    ELSE IF s[i] = BT /\ s[i + 1] = BT /\ s[i + 2] = BT
         THEN 1 + FenceCountFrom(s, i + 3)
         ELSE FenceCountFrom(s, i + 1)

FenceCount(s) == FenceCountFrom(s, 1)

EndsWithNewline(s) == s # <<>> /\ s[Len(s)] = "\n"

\* a newline appended whatever the text ends with
postProcessMarkdown_AlwaysNewline(s) ==
    LET out1 == IF FenceCount(s) % 2 # 0 THEN s \o <<"\n", BT, BT, BT>> ELSE s
    IN  out1 \o <<"\n">>

\* no fence appended
postProcessMarkdown_NoFence(s) ==
    IF ~EndsWithNewline(s) THEN s \o <<"\n">> ELSE s

postProcessMarkdown(s) ==
    LET out1 == IF FenceCount(s) % 2 # 0 THEN s \o <<"\n", BT, BT, BT>> ELSE s
    IN  IF ~EndsWithNewline(out1) THEN out1 \o <<"\n">> ELSE out1

\* ------------------------------------------------------------ TextDecoder
\* The bytes of the one two-byte character of the alphabet, and what the
\* decoder emits for a malformed sequence.
LeadByte == "0xC3"
ContByte == "0xA9"
TwoByteChar == "U+00E9"
Replacement == "U+FFFD"

RECURSIVE DecodeFrom(_, _, _)
\* decoder.decode(value, {stream: true}): pend is the incomplete sequence
\* kept from the chunks before, acc the text decoded so far
DecodeFrom(pend, bytes, acc) ==
    IF bytes = <<>> THEN [text |-> acc, pend |-> pend]
    ELSE LET b == Head(bytes) IN
         IF pend # <<>>
         THEN IF b = ContByte
              THEN DecodeFrom(<<>>, Tail(bytes), Append(acc, TwoByteChar))
              ELSE DecodeFrom(<<>>, bytes, Append(acc, Replacement))
         ELSE IF b = LeadByte THEN DecodeFrom(<<LeadByte>>, Tail(bytes), acc)
         ELSE IF b = ContByte THEN DecodeFrom(<<>>, Tail(bytes), Append(acc, Replacement))
         ELSE DecodeFrom(<<>>, Tail(bytes), Append(acc, b))

Decode(pend, bytes) == DecodeFrom(pend, bytes, <<>>)

\* ------------------------------------------------------------- split(regex)
At(s, i) == IF i >= 1 /\ i <= Len(s) THEN s[i] ELSE "<end>"

\* length of the match of /\n\r?\n/ at i, 0 when there is none
NlNlAt(s, i) ==
    IF At(s, i) # "\n" THEN 0
    ELSE IF At(s, i + 1) = "\r" /\ At(s, i + 2) = "\n" THEN 3
    ELSE IF At(s, i + 1) = "\n" THEN 2
    ELSE 0

\* length of the match of /\r?\n\r?\n/ at i, 0 when there is none
EventSepAt(s, i) ==
    IF At(s, i) = "\r"
    THEN IF NlNlAt(s, i + 1) > 0 THEN 1 + NlNlAt(s, i + 1) ELSE 0
    ELSE NlNlAt(s, i)

\* length of the match of /\r?\n/ at i, 0 when there is none
LineSepAt(s, i) ==
    IF At(s, i) = "\r" /\ At(s, i + 1) = "\n" THEN 2
    ELSE IF At(s, i) = "\n" THEN 1
    ELSE 0

SepAt(events, s, i) == IF events THEN EventSepAt(s, i) ELSE LineSepAt(s, i)

RECURSIVE SplitFrom(_, _, _, _, _)
\* String.prototype.split with one of the two separators: the pieces between
\* the leftmost matches, the last piece being what follows the last match
SplitFrom(events, s, i, start, acc) ==
    IF i > Len(s) THEN Append(acc, SubSeq(s, start, Len(s)))
    ELSE LET m == SepAt(events, s, i) IN
         IF m > 0
         THEN SplitFrom(events, s, i + m, i + m, Append(acc, SubSeq(s, start, i - 1)))
         ELSE SplitFrom(events, s, i + 1, start, acc)

\* buffered.split(/\r?\n\r?\n/)
SplitEvents(s) == SplitFrom(TRUE, s, 1, 1, <<>>)
\* evt.split(/\r?\n/)
SplitLines(s) == SplitFrom(FALSE, s, 1, 1, <<>>)

\* ------------------------------------------------------------ parseSSELine
\* JavaScript values: k is the type, s the text of a string, and for an
\* object hasContent / content its "content" property
JUndef == [k |-> "undefined", s |-> <<>>, hasContent |-> FALSE, content |-> <<>>]
JNull == [k |-> "null", s |-> <<>>, hasContent |-> FALSE, content |-> <<>>]
JStr(t) == [k |-> "string", s |-> t, hasContent |-> FALSE, content |-> <<>>]
JObj(has, t) == [k |-> "object", s |-> <<>>, hasContent |-> has, content |-> t]

Nullish(v) == v.k \in {"undefined", "null"}

\* JSON.parse on the documents of the alphabet: top is the type of the parsed
\* value, the other fields its properties delta, content and answer
JsonDoc(top, delta, content, answer) ==
    [top |-> top, delta |-> delta, content |-> content, answer |-> answer]

JsonTable ==
    [tok \in {"{\"content\":\"Hi\"}", "{\"delta\":{\"content\":\"De\"},\"content\":\"Co\"}",
              "{\"delta\":\"Dl\",\"answer\":\"An\"}", "{\"answer\":\"An\"}",
              "{\"done\":true}", "{\"content\":\"\"}", "42", "null", "\"hi\"",
              "{\"delta\":{\"role\":\"assistant\"},\"content\":\"Co\"}"} |->
        CASE tok = "{\"content\":\"Hi\"}" ->
                 JsonDoc("object", JUndef, JStr(<<"Hi">>), JUndef)
          [] tok = "{\"delta\":{\"content\":\"De\"},\"content\":\"Co\"}" ->
                 JsonDoc("object", JObj(TRUE, <<"De">>), JStr(<<"Co">>), JUndef)
          [] tok = "{\"delta\":\"Dl\",\"answer\":\"An\"}" ->
                 JsonDoc("object", JStr(<<"Dl">>), JUndef, JStr(<<"An">>))
          [] tok = "{\"answer\":\"An\"}" ->
                 JsonDoc("object", JUndef, JUndef, JStr(<<"An">>))
          [] tok = "{\"done\":true}" ->
                 JsonDoc("object", JUndef, JUndef, JUndef)
          [] tok = "{\"content\":\"\"}" ->
                 JsonDoc("object", JUndef, JStr(<<>>), JUndef)
          [] tok = "42" ->
                 JsonDoc("number", JUndef, JUndef, JUndef)
          [] tok = "null" ->
                 JsonDoc("null", JUndef, JUndef, JUndef)
          [] tok = "\"hi\"" ->
                 JsonDoc("string", JUndef, JUndef, JUndef)
          [] tok = "{\"delta\":{\"role\":\"assistant\"},\"content\":\"Co\"}" ->
                 JsonDoc("object", JObj(FALSE, <<>>), JStr(<<"Co">>), JUndef)]

\* JSON.parse(payload) returns (does not throw)
JsonParses(payload) == Len(payload) = 1 /\ payload[1] \in DOMAIN JsonTable

\* the chain without its last default
ExtractField_NoDefault(obj) ==
    LET d == obj.delta
        dc == IF d.k = "object" /\ d.hasContent THEN JStr(d.content) ELSE JUndef
    IN  IF ~Nullish(dc) THEN dc
        ELSE IF ~Nullish(d) THEN d
        ELSE IF ~Nullish(obj.content) THEN obj.content
        ELSE obj.answer

\* obj.delta?.content ?? obj.delta ?? obj.content ?? obj.answer ?? ""
ExtractField(obj) ==
    LET d == obj.delta
        dc == IF d.k = "object" /\ d.hasContent THEN JStr(d.content) ELSE JUndef
    IN  IF ~Nullish(dc) THEN dc
        ELSE IF ~Nullish(d) THEN d
        ELSE IF ~Nullish(obj.content) THEN obj.content
        ELSE IF ~Nullish(obj.answer) THEN obj.answer
        ELSE JStr(<<>>)

\* JNull is the result null (not a data line)
parseSSELine(line) ==
    LET trimmed == Trim(line) IN
    IF trimmed = <<>> \/ Head(trimmed) # "data:" THEN JNull
    ELSE LET payload == Trim(Tail(trimmed)) IN
         IF payload = <<>> \/ payload = <<"[DONE]">> \/ payload = <<"[done]">>
         THEN JStr(<<>>)
         ELSE IF JsonParses(payload) /\ JsonTable[payload[1]].top # "null"
              THEN ExtractField(JsonTable[payload[1]])
              ELSE JStr(payload)

\* String(v), as += converts what it appends
ToText(v) == IF v.k = "string" THEN v.s ELSE <<"[object Object]">>

RECURSIVE LinesText(_)
\* what the per-line loop appends for the lines of one event, in order
LinesText(lines) ==
    IF lines = <<>> THEN <<>>
    ELSE LET add == parseSSELine(Head(lines)) IN
         (IF add = JNull \/ add = JStr(<<>>) THEN <<>> ELSE ToText(add))
             \o LinesText(Tail(lines))

RECURSIVE EventsText(_)
\* what the loops over the complete events of one chunk append, in order
EventsText(events) ==
    IF events = <<>> THEN <<>>
    ELSE LinesText(SplitLines(Head(events))) \o EventsText(Tail(events))

RECURSIVE LinesParsed(_)
\* the calls of parseSSELine the per-line loop makes for the lines of one
\* event: the line and what the call returned
LinesParsed(lines) ==
    IF lines = <<>> THEN <<>>
    ELSE <<[line |-> Head(lines), result |-> parseSSELine(Head(lines))]>>
             \o LinesParsed(Tail(lines))

RECURSIVE EventsParsed(_)
EventsParsed(events) ==
    IF events = <<>> THEN <<>>
    ELSE LinesParsed(SplitLines(Head(events))) \o EventsParsed(Tail(events))

\* ------------------------------------------------------------ buildHistory
RECURSIVE NonSystem(_)
\* messages.value.filter((m) => m.role !== "system")
NonSystem(msgs) ==
    IF msgs = <<>> THEN <<>>
    ELSE IF Head(msgs).role # "system"
         THEN <<Head(msgs)>> \o NonSystem(Tail(msgs))
         ELSE NonSystem(Tail(msgs))

\* hist.slice(-n): slice(-0) is slice(0), the whole array
SliceLast(hist, n) ==
    IF n = 0 THEN hist ELSE SubSeq(hist, Max(1, Len(hist) - n + 1), Len(hist))

buildHistory(msgs, maxHistoryOpt) ==
    LET maxHistory == IF maxHistoryOpt = Undefined THEN DefaultMaxHistory
                      ELSE maxHistoryOpt
    IN  SliceLast(NonSystem(msgs), maxHistory)

\* ---------------------------------------------------------------- inputs
\* what the user types: a blank prompt and two questions
Prompts == {<<" ">>, <<"hello">>, <<"q">>}

\* res.write(`: ping\n\n`)
Ping == <<":", " ", "ping", "\n", "\n">>

\* Event-stream bodies: two text events; the keep-alive comment, two text
\* events and the sentinel; a two-line event with CRLF line ends, a JSON
\* payload and a two-byte character, followed by an unterminated event; an
\* event that opens a code fence; the keep-alive comment alone.
BodyTwo == <<"data:", "Hel", "\n", "\n", "data:", "lo", "\n", "\n">>
BodyHello ==
    Ping \o <<"data:", " ", "Hel", "\n", "\n", "data:", " ", "lo", "\n", "\n",
              "data:", " ", "[DONE]", "\n", "\n">>
BodyCrLf ==
    <<"data:", "{\"content\":\"Hi\"}", "\r", "\n", "data:", LeadByte, ContByte,
      "\r", "\n", "\r", "\n", "data:", "x">>
BodyFence == <<"data:", BT, BT, BT, "\n", "\n">>

\* a body that is not an event stream
BodyPlain == <<"Hi", LeadByte, ContByte, "\n", BT, BT, BT>>

\* What the servers of a session can stream: event-stream bodies, bodies of
\* another content type, and texts of responses without body.  The first is
\* the session's, the second the one used to examine one streaming call.
Backend(events, plain, texts) == [events |-> events, plain |-> plain, texts |-> texts]
SessionBackend == Backend({BodyTwo}, {}, {<<"Hi">>})
StreamBackend ==
    Backend({BodyHello, BodyCrLf, BodyFence, Ping}, {BodyPlain}, {<<>>, <<"Hi">>})

\* the texts of at most n tokens of S
SeqsUpTo(S, n) == UNION {[1..k -> S] : k \in 0..n}

\* Every buffer of the two line-end characters and one other character: the
\* bodies that put the event splitter through every separator and every cut.
FrameBuffers == SeqsUpTo({"x", "\r", "\n"}, MaxBuf)

\* The lines given to parseSSELine: white space or nothing, a field name or
\* nothing, white space or nothing, a payload, white space or nothing.  The
\* payloads are nothing, the sentinel in three spellings, plain text of one
\* and of three tokens, the JSON documents of JsonTable and a broken one.
LinePayloads ==
    {<<>>, <<"[DONE]">>, <<"[done]">>, <<"[Done]">>, <<"Hel">>, <<"Hel", " ", "lo">>,
     <<"{oops">>} \cup {<<tok>> : tok \in DOMAIN JsonTable}
LineHeads == {<<"data:">>, <<"Data:">>, <<"event:">>, <<>>}
Lines ==
    {a \o h \o b \o p \o c :
        a \in {<<>>, <<" ">>}, h \in LineHeads, b \in {<<>>, <<" ">>},
        p \in LinePayloads, c \in {<<>>, <<"\t">>}}

\* one event made of one line
LineBodies == {ln \o <<"\n", "\n">> : ln \in Lines}

RECURSIVE BlockTexts(_)
\* The texts given to postProcessMarkdown: at most n pieces, each a letter,
\* a newline, one backtick or a fence of three.
BlockTexts(n) ==
    IF n = 0 THEN {<<>>}
    ELSE LET shorter == BlockTexts(n - 1) IN
         shorter \cup {t \o b : t \in shorter,
                                b \in {<<"a">>, <<"\n">>, <<BT>>, <<BT, BT, BT>>}}
Texts == BlockTexts(MaxBlocks)

\* the servers that answer with one text, as a body that is not an event
\* stream or as a response without body
TextBackends == {Backend({}, {x}, {x}) : x \in Texts}

\* the servers that stream one body of bodies, whatever the call
CodecBackends(bodies) == {Backend({b}, {}, {}) : b \in bodies}

EventStreamType == "text/event-stream; charset=utf-8"
PlainType == "text/plain"

\* ct.includes("text/event-stream"), over the content types of the model
IsEventStream(ct) == ct = EventStreamType

\* What fetch("/api/chat") can resolve with when stream is true:
\* [status, ctype, hasBody, body].  Without body (resp.body is null or
\* absent) body is the text resp.text() gives.
Reply(status, ctype, hasBody, body) ==
    [status |-> status, ctype |-> ctype, hasBody |-> hasBody, body |-> body]

MissingKeyText == <<"{\"error\":\"Server missing OPENAI_API_KEY\"}">>
UpstreamErrText == <<"{\"error\":\"OpenAI error: quota exceeded\"}">>

StreamReplies(cfg, be) ==
    (IF cfg.openaiApiKey
     THEN {Reply(200, EventStreamType, TRUE, b) : b \in be.events}
          \cup {Reply(500, "application/json", TRUE, UpstreamErrText)}
     ELSE {Reply(500, "application/json", TRUE, MissingKeyText)})
    \cup {Reply(200, PlainType, TRUE, b) : b \in be.plain}
    \cup {Reply(200, PlainType, FALSE, t) : t \in be.texts}

\* What the completion backend answers to the handler's one call when
\* stream is false: [ok, hasContent, content, err]
Upstream(ok, hasContent, content, err) ==
    [ok |-> ok, hasContent |-> hasContent, content |-> content, err |-> err]

Upstreams ==
    {Upstream(TRUE, TRUE, <<"hi there">>, <<>>),
     Upstream(TRUE, TRUE, <<BT, BT, BT, "js">>, <<>>),
     Upstream(TRUE, FALSE, <<>>, <<>>),
     Upstream(FALSE, FALSE, <<>>, <<"quota exceeded">>)}

\* ----------------------------------------------- /api/chat, stream false
\* the handler's result: the status and the JSON body {answer} or {error}
Result(status, answer, err) == [status |-> status, answer |-> answer, error |-> err]

chatHandler(cfg, up) ==
    IF ~cfg.openaiApiKey
    THEN Result(500, JUndef, JStr(<<"Server missing OPENAI_API_KEY">>))
    ELSE IF ~up.ok
    THEN Result(500, JUndef, JStr(<<"OpenAI error: ">> \o up.err))
    ELSE Result(200, JStr(IF up.hasContent THEN up.content ELSE <<>>), JUndef)

\* a 2xx body carrying an error, as a server other than the handler can send
DirectResults == {Result(200, JUndef, JStr(<<"overloaded">>))}

\* ------------------------------------------------------------------ state
VARIABLES
    opts,       \* UseChatOptions: stream, systemPrompt (<<>> when absent), maxHistory
    config,     \* useRuntimeConfig(): openaiApiKey present or not
    backend,    \* what the servers of the session can stream
    messages,   \* messages.value
    pending,    \* pending.value
    error,      \* error.value
    abortCtrl,  \* the request whose AbortController abortCtrl holds, 0 for null
    req,        \* the send() calls that got past the guard, by number
    nreq,       \* how many there are
    last,       \* the last operation performed (history)
    srv         \* the run of the /api/chat handler for one incoming request

vars == <<opts, config, backend, messages, pending, error, abortCtrl, req, nreq, last, srv>>

Reqs == 1..MaxReq

\* A send() call before it starts.  pc is the await it is suspended at:
\* "fetch", "errtext" (resp.text() of a failed response), "fallback"
\* (resp.text() of a response without body), "read" (reader.read()), or
\* "done".  aborted is its controller's signal.  status, ctype and hasBody
\* are the response's status, Content-Type and body.  idx is the assistant slot
\* (1-based, 0 before it is reserved).  The fields from before on are
\* history: the list before the call, the whole response body, the number
\* of its bytes reader.read() has given, the backend's answer, the text
\* handed to the slot, the number of
\* postProcessMarkdown calls, the number of pushes, whether it changed the
\* list after a later call had started, how it ended, the events the read
\* loop has taken off the buffer and the parseSSELine calls it has made.
NoReq ==
    [pc |-> "none", prompt |-> <<>>, tail |-> <<>>, aborted |-> FALSE,
     status |-> 0, ctype |-> "", hasBody |-> FALSE, idx |-> 0, wire |-> <<>>, dec |-> <<>>,
     buffered |-> <<>>,
     before |-> <<>>, body |-> <<>>, got |-> 0, answer |-> <<>>, raw |-> <<>>,
     finals |-> 0, pushes |-> 0, late |-> FALSE, outcome |-> "none",
     frames |-> <<>>, parsed |-> <<>>]

\* The handler before an incoming request.  pc is the await it is suspended
\* at: "fetch" (the upstream call), "errtext" (upstream.text() of a failed
\* response), "json" (upstream.json()), "relay" and "lines" (reader.read()
\* of the two loops), "jsontext" (upstream.text() of a JSON body), or "done".
\* stream is the request's flag.  statusCode, ctype (the Content-Type header
\* set, "" for none), writes (the res.write calls in order) and ended
\* (res.end() called) are the outgoing response.  returned is how the
\* handler ended ("value", "null" or "thrown") and result the value.  up is
\* the upstream response, wire its bytes not yet read, dec the decoder's
\* incomplete sequence.  gone is set when the client has aborted its request
\* or disconnected.  calls, pings, sentinels and lines are history: the
\* upstream calls made, the keep-alive and sentinel writes made, and the
\* non-empty lines framed.
NoCall ==
    [pc |-> "idle", stream |-> FALSE, statusCode |-> 200, ctype |-> "",
     writes |-> <<>>, ended |-> FALSE, returned |-> "none",
     result |-> Result(0, JUndef, JUndef),
     up |-> Reply(0, "", FALSE, <<>>), rejected |-> FALSE, wire |-> <<>>, dec |-> <<>>,
     gone |-> FALSE, calls |-> 0, pings |-> 0, sentinels |-> 0, lines |-> <<>>]

Awaiting == {"fetch", "errtext", "fallback", "read"}
Running(r) == req[r].pc \in Awaiting

Msg(role, content) == [role |-> role, content |-> content]

\* the list useChat() starts with and reset() restores
InitialMessages(o) ==
    IF o.systemPrompt # <<>> THEN <<Msg("system", o.systemPrompt)>> ELSE <<>>

Last(op, r, prompt, wasPending) ==
    [op |-> op, r |-> r, prompt |-> prompt, wasPending |-> wasPending]

Init ==
    /\ opts \in [stream : BOOLEAN, systemPrompt : {<<>>, <<"Be brief.">>},
                 maxHistory : {Undefined, 0, 1}]
    /\ config \in [openaiApiKey : BOOLEAN]
    /\ backend = SessionBackend
    /\ messages = InitialMessages(opts)
    /\ pending = FALSE
    /\ error = Null
    /\ abortCtrl = 0
    /\ req = [r \in Reqs |-> NoReq]
    /\ nreq = 0
    /\ last = Last("init", 0, <<>>, FALSE)
    /\ srv = NoCall

\* --------------------------------------------------------------- helpers
\* abortCtrl?.abort()
Abort(reqs, ctrl) ==
    IF ctrl = 0 THEN reqs ELSE [reqs EXCEPT ![ctrl].aborted = TRUE]

\* the chunk put in place of the content
appendToMessage_Replace(msgs, index, chunk) ==
    IF index >= 1 /\ index <= Len(msgs)
    THEN [msgs EXCEPT ![index].content = chunk]
    ELSE msgs

appendToMessage(msgs, index, chunk) ==
    IF index >= 1 /\ index <= Len(msgs)
    THEN [msgs EXCEPT ![index].content = @ \o chunk]
    ELSE msgs

\* the history of the calls that have returned is dropped when a new call
\* starts
Forget(reqs) ==
    [r \in Reqs |->
        IF reqs[r].pc = "done"
        THEN [NoReq EXCEPT !.pc = "done", !.aborted = reqs[r].aborted,
                           !.late = reqs[r].late, !.outcome = reqs[r].outcome]
        ELSE reqs[r]]

\* call r changes the list to msgs although a later call has started
Late(r, msgs) == r # nreq /\ msgs # messages

\* the locals of a call that has returned
Ended(rq, outcome) ==
    [rq EXCEPT !.pc = "done", !.outcome = outcome, !.wire = <<>>, !.dec = <<>>,
               !.buffered = <<>>]

\* resp.ok
Ok(status) == status >= 200 /\ status <= 299

\* resp.text(): the whole body decoded at once
TextOf(bytes) ==
    LET d == Decode(<<>>, bytes)
    IN  d.text \o (IF d.pend # <<>> THEN <<Replacement>> ELSE <<>>)

\* serverMsg.substring(0, 200); the error bodies of the model are shorter
Truncate(t) == SubSeq(t, 1, Min(Len(t), ErrBodyLimit))

\* "API " + resp.status + " " + resp.statusText, then " - " and the
\* truncated body when there is one
ApiError(status, serverMsg) ==
    <<"API", ToString(status)>>
        \o (IF serverMsg # <<>> THEN <<" - ">> \o Truncate(serverMsg) ELSE <<>>)

\* a value that counts as true in a condition
Truthy(v) == v.k = "object" \/ (v.k = "string" /\ v.s # <<>>)

\* the call returning without a finally block
Finally_PendingKept(r, outcome, err) ==
    /\ error' = err
    /\ req' = [req EXCEPT ![r] = Ended(@, outcome)]
    /\ last' = Last(outcome, r, <<>>, pending)
    /\ UNCHANGED <<srv, opts, config, backend, messages, abortCtrl, nreq, pending>>

\* the finally block, after an outcome that leaves the list alone
Finally(r, outcome, err) ==
    /\ pending' = FALSE
    /\ error' = err
    /\ req' = [req EXCEPT ![r] = Ended(@, outcome)]
    /\ last' = Last(outcome, r, <<>>, pending)
    /\ UNCHANGED <<srv, opts, config, backend, messages, abortCtrl, nreq>>

\* ------------------------------------------------------------------ send
\* the guard without its pending test
SendRefused_NoPendingTest(p) == Trim(p) = <<>>

\* if (!prompt.trim() || pending.value) return;
SendRefused(p) == Trim(p) = <<>> \/ pending

Send(p) ==
    IF SendRefused(p)
    THEN /\ last' = Last("send", 0, p, pending)
         /\ UNCHANGED <<srv, opts, config, backend, messages, pending, error, abortCtrl, req, nreq>>
    ELSE /\ nreq < MaxReq
         /\ LET r == nreq + 1 IN
            /\ error' = Null
            /\ pending' = TRUE
            /\ req' = [Forget(Abort(req, abortCtrl)) EXCEPT ![r] =
                          [NoReq EXCEPT !.pc = "fetch", !.prompt = p,
                                        !.tail = buildHistory(messages, opts.maxHistory),
                                        !.before = messages, !.pushes = 1]]
            /\ abortCtrl' = r
            /\ nreq' = r
            /\ messages' = Append(messages, Msg("user", p))
            /\ last' = Last("send", r, p, pending)
         /\ UNCHANGED <<srv, opts, config, backend>>

\* ----------------------------------------------------------------- reset
\* reset() without abortCtrl?.abort()
Reset_NoAbort ==
    /\ messages' = InitialMessages(opts)
    /\ error' = Null
    /\ last' = Last("reset", 0, <<>>, pending)
    /\ UNCHANGED <<srv, opts, config, backend, pending, abortCtrl, nreq, req>>

Reset ==
    /\ req' = Abort(req, abortCtrl)
    /\ messages' = InitialMessages(opts)
    /\ error' = Null
    /\ last' = Last("reset", 0, <<>>, pending)
    /\ UNCHANGED <<srv, opts, config, backend, pending, abortCtrl, nreq>>

\* ------------------------------------------- send, after await $fetch(...)
\* the answer pushed as it came
Receive_Unprocessed(r, res, backendAnswer) ==
    IF ~Ok(res.status)
    THEN Finally(r, "failed", <<"FetchError", ToString(res.status)>>)
    ELSE IF Truthy(res.error)
    THEN Finally(r, "failed", res.error.s)
    ELSE LET answer == IF Nullish(res.answer) THEN <<>> ELSE res.answer.s
         IN  /\ messages' = Append(messages, Msg("assistant", answer))
             /\ pending' = FALSE
             /\ req' = [req EXCEPT ![r] =
                           Ended([@ EXCEPT !.answer = backendAnswer, !.finals = @ + 1,
                                           !.pushes = @ + 1,
                                           !.late = @ \/ Late(r, messages')], "success")]
             /\ last' = Last("success", r, <<>>, pending)
             /\ UNCHANGED <<srv, opts, config, backend, error, abortCtrl, nreq>>

\* The handler's result reaches the call: $fetch rejects for a status that
\* is not 2xx; a result with an error is thrown; otherwise the answer is
\* post-processed and pushed.
Receive(r, res, backendAnswer) ==
    IF ~Ok(res.status)
    THEN Finally(r, "failed", <<"FetchError", ToString(res.status)>>)
    ELSE IF Truthy(res.error)
    THEN Finally(r, "failed", res.error.s)
    ELSE LET answer == postProcessMarkdown(IF Nullish(res.answer) THEN <<>>
                                            ELSE res.answer.s)
         IN  /\ messages' = Append(messages, Msg("assistant", answer))
             /\ pending' = FALSE
             /\ req' = [req EXCEPT ![r] =
                           Ended([@ EXCEPT !.answer = backendAnswer, !.finals = @ + 1,
                                           !.pushes = @ + 1,
                                           !.late = @ \/ Late(r, messages')], "success")]
             /\ last' = Last("success", r, <<>>, pending)
             /\ UNCHANGED <<srv, opts, config, backend, error, abortCtrl, nreq>>

\* the handler called the backend and returned
FetchJson(r, up) ==
    /\ req[r].pc = "fetch" /\ ~req[r].aborted /\ ~opts.stream
    /\ Receive(r, chatHandler(config, up), IF up.hasContent THEN up.content ELSE <<>>)

\* some other server answered
FetchDirect(r, res) ==
    /\ req[r].pc = "fetch" /\ ~req[r].aborted /\ ~opts.stream
    /\ Receive(r, res, <<>>)

\* the transport failed before a response
FetchReject(r) ==
    /\ req[r].pc = "fetch" /\ ~req[r].aborted
    /\ Finally(r, "failed", <<"Failed to fetch">>)

\* --------------------------------------------- send, after await fetch(...)
FetchResponse(r, rep) ==
    /\ req[r].pc = "fetch" /\ ~req[r].aborted /\ opts.stream
    /\ IF ~Ok(rep.status)
       THEN /\ req' = [req EXCEPT ![r].pc = "errtext", ![r].status = rep.status,
                                  ![r].wire = rep.body, ![r].body = rep.body]
            /\ UNCHANGED messages
       ELSE /\ messages' = Append(messages, Msg("assistant", <<>>))
            /\ req' = [req EXCEPT ![r].pc = IF rep.hasBody THEN "read" ELSE "fallback",
                                  ![r].status = rep.status,
                                  ![r].ctype = rep.ctype,
                                  ![r].hasBody = rep.hasBody,
                                  ![r].idx = Len(messages) + 1,
                                  ![r].wire = rep.body, ![r].body = rep.body,
                                  ![r].pushes = @ + 1,
                                  ![r].late = @ \/ Late(r, messages')]
    /\ last' = Last("response", r, <<>>, pending)
    /\ UNCHANGED <<srv, opts, config, backend, pending, error, abortCtrl, nreq>>

\* await resp.text() of a failed response: the body arrives (arrived) or
\* the read fails and the inner catch ignores it
ErrText(r, arrived) ==
    /\ req[r].pc = "errtext" /\ ~req[r].aborted
    /\ Finally(r, "failed",
               ApiError(req[r].status, IF arrived THEN TextOf(req[r].wire) ELSE <<>>))

\* the fallback without its return: the slot is post-processed again after
\* the loop
FallbackText_FallThrough(r) ==
    /\ req[r].pc = "fallback" /\ ~req[r].aborted
    /\ LET text == TextOf(req[r].wire)
           fallback == postProcessMarkdown(text)
           appended == appendToMessage(messages, req[r].idx, fallback)
       IN  /\ messages' = [appended EXCEPT ![req[r].idx].content = postProcessMarkdown(@)]
           /\ req' = [req EXCEPT ![r] =
                         Ended([@ EXCEPT !.raw = @ \o text, !.finals = @ + 2,
                                         !.late = @ \/ Late(r, messages')], "success")]
    /\ pending' = FALSE
    /\ last' = Last("success", r, <<>>, pending)
    /\ UNCHANGED <<srv, opts, config, backend, error, abortCtrl, nreq>>

\* await resp.text() of a response without body, then return
FallbackText(r) ==
    /\ req[r].pc = "fallback" /\ ~req[r].aborted
    /\ LET text == TextOf(req[r].wire)
           fallback == postProcessMarkdown(text)
       IN  /\ messages' = appendToMessage(messages, req[r].idx, fallback)
           /\ req' = [req EXCEPT ![r] =
                         Ended([@ EXCEPT !.raw = @ \o text, !.finals = @ + 1,
                                         !.late = @ \/ Late(r, messages')], "success")]
    /\ pending' = FALSE
    /\ last' = Last("success", r, <<>>, pending)
    /\ UNCHANGED <<srv, opts, config, backend, error, abortCtrl, nreq>>

\* the rejection taken for a cancellation: no error recorded
BodyReject_Silent(r) ==
    /\ req[r].pc \in {"fallback", "read"} /\ ~req[r].aborted
    /\ Finally(r, "failed", error)

\* resp.text() or reader.read() rejects: the transport failed
BodyReject(r) ==
    /\ req[r].pc \in {"fallback", "read"} /\ ~req[r].aborted
    /\ Finally(r, "failed", <<"network error">>)

\* a chunk handed over although the call was aborted
ReadChunk_AfterAbort(r, n) ==
    /\ req[r].pc = "read"
    /\ n >= 1 /\ n <= Len(req[r].wire)
    /\ LET value == SubSeq(req[r].wire, 1, n)
           d == Decode(req[r].dec, value)
           chunk == d.text
           buffered == req[r].buffered \o chunk
           events == SplitEvents(buffered)
           sse == IsEventStream(req[r].ctype)
           complete == IF sse THEN SubSeq(events, 1, Len(events) - 1) ELSE <<>>
           add == IF sse THEN EventsText(complete) ELSE chunk
       IN  /\ messages' = appendToMessage(messages, req[r].idx, add)
           /\ req' = [req EXCEPT ![r].wire = Drop(@, n),
                                 ![r].dec = d.pend,
                                 ![r].got = @ + n,
                                 ![r].buffered = IF sse THEN events[Len(events)] ELSE <<>>,
                                 ![r].raw = @ \o add,
                                 ![r].frames = @ \o complete,
                                 ![r].parsed = @ \o EventsParsed(complete),
                                 ![r].late = @ \/ Late(r, messages')]
    /\ last' = Last("chunk", r, <<>>, pending)
    /\ UNCHANGED <<srv, opts, config, backend, pending, error, abortCtrl, nreq>>

\* the read loop parsing each chunk on its own, nothing carried over
ReadChunk_NoCarry(r, n) ==
    /\ req[r].pc = "read" /\ ~req[r].aborted
    /\ n >= 1 /\ n <= Len(req[r].wire)
    /\ LET value == SubSeq(req[r].wire, 1, n)
           d == Decode(req[r].dec, value)
           chunk == d.text
           events == SplitEvents(chunk)
           sse == IsEventStream(req[r].ctype)
           complete == IF sse THEN SubSeq(events, 1, Len(events) - 1) ELSE <<>>
           add == IF sse THEN EventsText(complete) ELSE chunk
       IN  /\ messages' = appendToMessage(messages, req[r].idx, add)
           /\ req' = [req EXCEPT ![r].wire = Drop(@, n),
                                 ![r].dec = d.pend,
                                 ![r].got = @ + n,
                                 ![r].buffered = <<>>,
                                 ![r].raw = @ \o add,
                                 ![r].frames = @ \o complete,
                                 ![r].parsed = @ \o EventsParsed(complete),
                                 ![r].late = @ \/ Late(r, messages')]
    /\ last' = Last("chunk", r, <<>>, pending)
    /\ UNCHANGED <<srv, opts, config, backend, pending, error, abortCtrl, nreq>>

\* one turn of the read loop: reader.read() gives the next n bytes
ReadChunk(r, n) ==
    /\ req[r].pc = "read" /\ ~req[r].aborted
    /\ n >= 1 /\ n <= Len(req[r].wire)
    /\ LET value == SubSeq(req[r].wire, 1, n)
           d == Decode(req[r].dec, value)
           chunk == d.text
           buffered == req[r].buffered \o chunk
           events == SplitEvents(buffered)
           sse == IsEventStream(req[r].ctype)
           complete == IF sse THEN SubSeq(events, 1, Len(events) - 1) ELSE <<>>
           add == IF sse THEN EventsText(complete) ELSE chunk
       IN  /\ messages' = appendToMessage(messages, req[r].idx, add)
           /\ req' = [req EXCEPT ![r].wire = Drop(@, n),
                                 ![r].dec = d.pend,
                                 ![r].got = @ + n,
                                 ![r].buffered = IF sse THEN events[Len(events)] ELSE <<>>,
                                 ![r].raw = @ \o add,
                                 ![r].frames = @ \o complete,
                                 ![r].parsed = @ \o EventsParsed(complete),
                                 ![r].late = @ \/ Late(r, messages')]
    /\ last' = Last("chunk", r, <<>>, pending)
    /\ UNCHANGED <<srv, opts, config, backend, pending, error, abortCtrl, nreq>>

\* the loop ending with what is left in the buffer parsed as a last event
ReadDone_Flush(r) ==
    /\ req[r].pc = "read" /\ ~req[r].aborted
    /\ req[r].wire = <<>>
    /\ LET idx == req[r].idx
           has == idx >= 1 /\ idx <= Len(messages)
           rest == EventsText(<<req[r].buffered>>)
           flushed == appendToMessage(messages, idx, rest)
       IN  /\ messages' = IF has
                          THEN [flushed EXCEPT ![idx].content = postProcessMarkdown(@)]
                          ELSE messages
           /\ req' = [req EXCEPT ![r] =
                         Ended([@ EXCEPT !.finals = IF has THEN @ + 1 ELSE @,
                                         !.raw = @ \o rest,
                                         !.late = @ \/ Late(r, messages')], "success")]
    /\ pending' = FALSE
    /\ last' = Last("success", r, <<>>, pending)
    /\ UNCHANGED <<srv, opts, config, backend, error, abortCtrl, nreq>>

\* reader.read() gives done: the loop ends and the slot is post-processed
ReadDone(r) ==
    /\ req[r].pc = "read" /\ ~req[r].aborted
    /\ req[r].wire = <<>>
    /\ LET idx == req[r].idx
           has == idx >= 1 /\ idx <= Len(messages)
       IN  /\ messages' = IF has
                          THEN [messages EXCEPT ![idx].content = postProcessMarkdown(@)]
                          ELSE messages
           /\ req' = [req EXCEPT ![r] =
                         Ended([@ EXCEPT !.finals = IF has THEN @ + 1 ELSE @,
                                         !.late = @ \/ Late(r, messages')], "success")]
    /\ pending' = FALSE
    /\ last' = Last("success", r, <<>>, pending)
    /\ UNCHANGED <<srv, opts, config, backend, error, abortCtrl, nreq>>

\* ------------------------------------------------------- send, after abort
\* The names the rejection of an aborted await can carry: fetch, resp.text()
\* and reader.read() reject with an AbortError; $fetch rejects with that
\* AbortError or with its own FetchError wrapping it.
RejectionNames(stream) ==
    IF stream THEN {"AbortError"} ELSE {"AbortError", "FetchError"}

\* The await of an aborted call rejects.  Awaiting the text of a failed
\* response, the inner catch ignores the rejection and the API error is
\* thrown; else the outer catch returns for an AbortError and records any
\* other error.
AbortReject(r, name) ==
    /\ Running(r) /\ req[r].aborted
    /\ name \in RejectionNames(opts.stream)
    /\ IF req[r].pc = "errtext"
       THEN Finally(r, "aborted", ApiError(req[r].status, <<>>))
       ELSE IF name = "AbortError"
       THEN Finally(r, "aborted", error)
       ELSE Finally(r, "aborted", <<"FetchError", "aborted">>)

\* ---------------------------------------------------------- specification
Next ==
    \/ \E p \in Prompts : Send(p)
    \/ Reset
    \/ \E r \in Reqs, up \in Upstreams : FetchJson(r, up)
    \/ \E r \in Reqs, res \in DirectResults : FetchDirect(r, res)
    \/ \E r \in Reqs : FetchReject(r)
    \/ \E r \in Reqs, rep \in StreamReplies(config, backend) : FetchResponse(r, rep)
    \/ \E r \in Reqs, arrived \in BOOLEAN : ErrText(r, arrived)
    \/ \E r \in Reqs : FallbackText(r)
    \/ \E r \in Reqs : BodyReject(r)
    \/ \E r \in Reqs, n \in 1..MaxCut : ReadChunk(r, n)
    \/ \E r \in Reqs : ReadDone(r)
    \/ \E r \in Reqs, name \in {"AbortError", "FetchError"} : AbortReject(r, name)

Spec == Init /\ [][Next]_vars

\* what can happen to call r once it is suspended at an await
Continue(r) ==
    \/ \E up \in Upstreams : FetchJson(r, up)
    \/ \E res \in DirectResults : FetchDirect(r, res)
    \/ FetchReject(r)
    \/ \E rep \in StreamReplies(config, backend) : FetchResponse(r, rep)
    \/ \E arrived \in BOOLEAN : ErrText(r, arrived)
    \/ FallbackText(r)
    \/ BodyReject(r)
    \/ \E n \in 1..MaxCut : ReadChunk(r, n)
    \/ ReadDone(r)
    \/ \E name \in {"AbortError", "FetchError"} : AbortReject(r, name)

\* the sessions without system prompt and with the default history window
LiveInit == Init /\ opts.systemPrompt = <<>> /\ opts.maxHistory = Undefined

\* The transport settles every await (with data, end of data, a failure or
\* the rejection of an abort) and the event loop runs the continuation.
LiveSpec == LiveInit /\ [][Next]_vars /\ \A r \in Reqs : WF_vars(Continue(r))

\* The streaming calls examined over every body of StreamBackend: a session
\* with stream set and the credential configured, in which the user sends
\* one question again and again.
StreamPrompts == {<<"hello">>}

StreamInit ==
    /\ opts \in [stream : {TRUE}, systemPrompt : {<<>>, <<"Be brief.">>},
                 maxHistory : {Undefined}]
    /\ config = [openaiApiKey |-> TRUE]
    /\ backend = StreamBackend
    /\ messages = InitialMessages(opts)
    /\ pending = FALSE
    /\ error = Null
    /\ abortCtrl = 0
    /\ req = [r \in Reqs |-> NoReq]
    /\ nreq = 0
    /\ last = Last("init", 0, <<>>, FALSE)
    /\ srv = NoCall

StreamNext ==
    \/ \E p \in StreamPrompts : Send(p)
    \/ Reset
    \/ \E r \in Reqs : FetchReject(r)
    \/ \E r \in Reqs, rep \in StreamReplies(config, backend) : FetchResponse(r, rep)
    \/ \E r \in Reqs, arrived \in BOOLEAN : ErrText(r, arrived)
    \/ \E r \in Reqs : FallbackText(r)
    \/ \E r \in Reqs : BodyReject(r)
    \/ \E r \in Reqs, n \in 1..MaxCut : ReadChunk(r, n)
    \/ \E r \in Reqs : ReadDone(r)
    \/ \E r \in Reqs, name \in {"AbortError"} : AbortReject(r, name)

StreamSpec == StreamInit /\ [][StreamNext]_vars

\* The read loop examined over every buffer of FrameBuffers and every way
\* of cutting it: the server streams one buffer as an event stream and the
\* transport hands it over in chunks of any size.
FrameInit ==
    /\ opts = [stream |-> TRUE, systemPrompt |-> <<>>, maxHistory |-> Undefined]
    /\ config = [openaiApiKey |-> TRUE]
    /\ backend \in CodecBackends(FrameBuffers)
    /\ messages = InitialMessages(opts)
    /\ pending = FALSE
    /\ error = Null
    /\ abortCtrl = 0
    /\ req = [r \in Reqs |-> NoReq]
    /\ nreq = 0
    /\ last = Last("init", 0, <<>>, FALSE)
    /\ srv = NoCall

\* the responses of StreamReplies with a success status
OkReplies == {rep \in StreamReplies(config, backend) : Ok(rep.status)}

FrameNext ==
    \/ \E p \in StreamPrompts : Send(p)
    \/ \E r \in Reqs, rep \in OkReplies : FetchResponse(r, rep)
    \/ \E r \in Reqs, n \in 1..MaxBuf : ReadChunk(r, n)
    \/ \E r \in Reqs : ReadDone(r)

FrameSpec == FrameInit /\ [][FrameNext]_vars

\* the read loop examined over every line of Lines, sent as one event
LineInit ==
    /\ opts = [stream |-> TRUE, systemPrompt |-> <<>>, maxHistory |-> Undefined]
    /\ config = [openaiApiKey |-> TRUE]
    /\ backend \in CodecBackends(LineBodies)
    /\ messages = InitialMessages(opts)
    /\ pending = FALSE
    /\ error = Null
    /\ abortCtrl = 0
    /\ req = [r \in Reqs |-> NoReq]
    /\ nreq = 0
    /\ last = Last("init", 0, <<>>, FALSE)
    /\ srv = NoCall

LineSpec == LineInit /\ [][FrameNext]_vars

\* The post-processing examined over every text of Texts: the server
\* answers with the text, which reaches postProcessMarkdown through the read
\* loop or through the fallback for a response without body.
FinalInit ==
    /\ opts = [stream |-> TRUE, systemPrompt |-> <<>>, maxHistory |-> Undefined]
    /\ config = [openaiApiKey |-> TRUE]
    /\ backend \in TextBackends
    /\ messages = InitialMessages(opts)
    /\ pending = FALSE
    /\ error = Null
    /\ abortCtrl = 0
    /\ req = [r \in Reqs |-> NoReq]
    /\ nreq = 0
    /\ last = Last("init", 0, <<>>, FALSE)
    /\ srv = NoCall

FinalNext ==
    \/ \E p \in StreamPrompts : Send(p)
    \/ \E r \in Reqs, rep \in OkReplies : FetchResponse(r, rep)
    \/ \E r \in Reqs : FallbackText(r)
    \/ \E r \in Reqs, n \in 1..MaxBuf : ReadChunk(r, n)
    \/ \E r \in Reqs : ReadDone(r)

FinalSpec == FinalInit /\ [][FinalNext]_vars

\* ------------------------------------------------ /api/chat, the handler
JsonType == "application/json"
\* upstreamCT.includes("application/json"), over the content types of the model
IsJson(ct) == ct = JsonType

\* JSON bodies of the backend: a completion with the answer Hi, one without
\* choices, and a body that is not JSON
ChoicesHi == "{\"choices\":[{\"message\":{\"content\":\"Hi\"}}]}"
ChoicesNone == "{\"choices\":[]}"
NotJson == "oops"

\* JSON.parse(text) returns (does not throw), over those bodies
BodyParses(text) == text \in {<<ChoicesHi>>, <<ChoicesNone>>}
\* data?.choices?.[0]?.message?.content of the parsed body, JUndef if absent
ChoiceContent(text) == IF text = <<ChoicesHi>> THEN JStr(<<"Hi">>) ELSE JUndef

\* JSON.stringify({ content: answer }): one token for the answers of those
\* bodies, the answer between the two ends of the document for any other
StringifyContent(answer) ==
    CASE answer = <<"Hi">> -> <<"{\"content\":\"Hi\"}">>
      [] answer = <<>> -> <<"{\"content\":\"\"}">>
      [] answer = <<NotJson>> -> <<"{\"content\":\"oops\"}">>
      [] OTHER -> <<"{\"content\":\"">> \o answer \o <<"\"}">>

\* res.write of one data frame, and of the sentinel
DataFrame(payload) == <<"data:", " ">> \o payload \o <<"\n", "\n">>
Sentinel == <<"[DONE]">>

\* Unstructured bodies: two lines with both line ends and a two-byte
\* character; a body one of whose lines is the sentinel's text.
TextTwoLines == <<"Hi", "\r", "\n", LeadByte, ContByte, "\n">>
TextWithDone == <<"a", "\n", "[DONE]", "\n">>

\* What the backend can answer to the handler's call: an event stream, a
\* JSON body or an unstructured stream, each also without body, and two
\* failures with their error bodies.
BackendReplies ==
    {Reply(200, EventStreamType, TRUE, BodyTwo),
     Reply(200, EventStreamType, TRUE, DataFrame(Sentinel)),
     Reply(200, EventStreamType, FALSE, <<>>),
     Reply(200, JsonType, TRUE, <<ChoicesHi>>),
     Reply(200, JsonType, TRUE, <<ChoicesNone>>),
     Reply(200, JsonType, TRUE, <<NotJson>>),
     Reply(200, JsonType, FALSE, <<>>),
     Reply(200, PlainType, TRUE, TextTwoLines),
     Reply(200, PlainType, TRUE, TextWithDone),
     Reply(200, PlainType, TRUE, <<>>),
     Reply(200, PlainType, FALSE, <<>>),
     Reply(429, JsonType, TRUE, <<"quota exceeded">>),
     Reply(503, PlainType, TRUE, <<"upstream", " ", "down">>)}

\* the handler returns v, having set the status v carries
Return(sv, v) ==
    [sv EXCEPT !.pc = "done", !.returned = "value", !.result = v,
               !.statusCode = v.status]
\* the handler returns null after res.end()
ReturnNull(sv) == [sv EXCEPT !.pc = "done", !.returned = "null", !.ended = TRUE]
\* an await of the handler rejects: nothing catches it
Throw(sv) == [sv EXCEPT !.pc = "done", !.returned = "thrown"]

\* the variables of the composable
clientVars == <<opts, backend, messages, pending, error, abortCtrl, req, nreq, last>>

\* the call made whatever the configuration
MissingKey_Ignored(cfg) == FALSE

\* if (!config.openaiApiKey)
MissingKey(cfg) == ~cfg.openaiApiKey

\* An incoming request: the body is read, the credential checked and the
\* upstream call issued.
ChatRequest(stream) ==
    /\ srv.pc \in {"idle", "done"}
    /\ srv' = IF MissingKey(config)
              THEN Return([NoCall EXCEPT !.stream = stream],
                          chatHandler(config, Upstream(FALSE, FALSE, <<>>, <<>>)))
              ELSE [NoCall EXCEPT !.pc = "fetch", !.stream = stream, !.calls = 1]
    /\ UNCHANGED <<config, clientVars>>

\* await fetch(...) rejects: the backend was not reached
UpstreamReject ==
    /\ srv.pc = "fetch"
    /\ srv' = Throw([srv EXCEPT !.rejected = TRUE])
    /\ UNCHANGED <<config, clientVars>>

\* every response taken for a success
Failed_Never(up) == FALSE

\* if (!upstream.ok)
Failed(up) == ~Ok(up.status)

\* the headers alone, no keep-alive
OpenStream_NoPing(sv) == [sv EXCEPT !.ctype = EventStreamType]

\* the event-stream headers are set and the keep-alive comment written
OpenStream(sv) ==
    [sv EXCEPT !.ctype = EventStreamType, !.writes = Append(@, Ping), !.pings = @ + 1]

\* The upstream response arrives.  A failed one is read as text; with
\* stream off the body is read as JSON; else the stream is opened and the
\* response handled by its content type.
UpstreamResponse(up) ==
    /\ srv.pc = "fetch"
    /\ LET got == [srv EXCEPT !.up = up, !.wire = up.body] IN
       srv' = IF Failed(up) THEN [got EXCEPT !.pc = "errtext"]
              ELSE IF ~srv.stream THEN [got EXCEPT !.pc = "json"]
              ELSE LET open == OpenStream(got) IN
                   IF ~up.hasBody THEN ReturnNull(open)
                   ELSE IF IsEventStream(up.ctype) THEN [open EXCEPT !.pc = "relay"]
                   ELSE IF IsJson(up.ctype) THEN [open EXCEPT !.pc = "jsontext"]
                   ELSE [open EXCEPT !.pc = "lines"]
    /\ UNCHANGED <<config, clientVars>>

\* await upstream.text().catch(() => ""): the error body arrives or not
UpstreamErrBody(arrived) ==
    /\ srv.pc = "errtext"
    /\ LET err == IF arrived THEN TextOf(srv.wire) ELSE <<>> IN
       srv' = Return([srv EXCEPT !.wire = <<>>],
                     chatHandler(config, Upstream(FALSE, FALSE, <<>>, err)))
    /\ UNCHANGED <<config, clientVars>>

\* await upstream.json(): the parsed body, or a rejection for a body that
\* is not JSON
UpstreamJson ==
    /\ srv.pc = "json"
    /\ LET text == TextOf(srv.wire)
           content == ChoiceContent(text)
           read == [srv EXCEPT !.wire = <<>>]
       IN  srv' = IF srv.up.hasBody /\ BodyParses(text)
                  THEN Return(read, chatHandler(config,
                                  Upstream(TRUE, ~Nullish(content), content.s, <<>>)))
                  ELSE Throw(read)
    /\ UNCHANGED <<config, clientVars>>

\* one turn of the relay loop: the bytes read are written as they are
RelayChunk(n) ==
    /\ srv.pc = "relay"
    /\ n >= 1 /\ n <= Len(srv.wire)
    /\ srv' = [srv EXCEPT !.writes = Append(@, SubSeq(srv.wire, 1, n)),
                          !.wire = Drop(@, n)]
    /\ UNCHANGED <<config, clientVars>>

\* the upstream stream is done: res.end()
RelayDone ==
    /\ srv.pc = "relay" /\ srv.wire = <<>>
    /\ srv' = ReturnNull(srv)
    /\ UNCHANGED <<config, clientVars>>

\* await upstream.text() of a JSON body: the answer, or the text itself
\* when it does not parse, goes out as one data frame before the sentinel
UpstreamJsonText ==
    /\ srv.pc = "jsontext"
    /\ LET text == TextOf(srv.wire)
           content == ChoiceContent(text)
           answer == IF BodyParses(text)
                     THEN (IF Nullish(content) THEN <<>> ELSE content.s)
                     ELSE text
       IN  srv' = ReturnNull([srv EXCEPT
                      !.writes = @ \o <<DataFrame(StringifyContent(answer)),
                                        DataFrame(Sentinel)>>,
                      !.sentinels = @ + 1,
                      !.wire = <<>>])
    /\ UNCHANGED <<config, clientVars>>

RECURSIVE NonEmpty(_)
\* .filter((ln) => ln.length > 0)
NonEmpty(lines) ==
    IF lines = <<>> THEN <<>>
    ELSE IF Len(Head(lines)) > 0 THEN <<Head(lines)>> \o NonEmpty(Tail(lines))
         ELSE NonEmpty(Tail(lines))

\* one turn of the text loop: the chunk is decoded and each of its
\* non-empty lines written as a data frame
LinesChunk(n) ==
    /\ srv.pc = "lines"
    /\ n >= 1 /\ n <= Len(srv.wire)
    /\ LET d == Decode(srv.dec, SubSeq(srv.wire, 1, n))
           lns == NonEmpty(SplitLines(d.text))
       IN  srv' = [srv EXCEPT !.writes = @ \o [i \in 1..Len(lns) |-> DataFrame(lns[i])],
                              !.lines = @ \o lns,
                              !.dec = d.pend,
                              !.wire = Drop(@, n)]
    /\ UNCHANGED <<config, clientVars>>

\* the loop ended without the sentinel
LinesDone_NoSentinel ==
    /\ srv.pc = "lines" /\ srv.wire = <<>>
    /\ srv' = ReturnNull(srv)
    /\ UNCHANGED <<config, clientVars>>

\* the upstream stream is done: the sentinel, then res.end()
LinesDone ==
    /\ srv.pc = "lines" /\ srv.wire = <<>>
    /\ srv' = ReturnNull([srv EXCEPT !.writes = Append(@, DataFrame(Sentinel)),
                                     !.sentinels = @ + 1])
    /\ UNCHANGED <<config, clientVars>>

\* upstream.text() or reader.read() rejects once the stream is open
UpstreamBodyFail ==
    /\ srv.pc \in {"relay", "jsontext", "lines"}
    /\ srv' = Throw(srv)
    /\ UNCHANGED <<config, clientVars>>

\* The client aborts its streaming request or disconnects while the handler
\* is suspended.  The handler passes no signal to its fetch and listens to
\* no close event: nothing of its run changes.
ClientDisconnect ==
    /\ srv.stream /\ ~srv.gone
    /\ srv.pc \in {"fetch", "errtext", "relay", "jsontext", "lines"}
    /\ srv' = [srv EXCEPT !.gone = TRUE]
    /\ UNCHANGED <<config, clientVars>>

\* The handler over every request, configuration and backend answer; the
\* composable stands still.
AdapterNext ==
    \/ \E stream \in BOOLEAN : ChatRequest(stream)
    \/ UpstreamReject
    \/ \E up \in BackendReplies : UpstreamResponse(up)
    \/ \E arrived \in BOOLEAN : UpstreamErrBody(arrived)
    \/ UpstreamJson
    \/ \E n \in 1..MaxCut : RelayChunk(n)
    \/ RelayDone
    \/ UpstreamJsonText
    \/ \E n \in 1..MaxCut : LinesChunk(n)
    \/ LinesDone
    \/ UpstreamBodyFail
    \/ ClientDisconnect

\* the composable as created, never called
AdapterInit ==
    Init /\ opts = [stream |-> TRUE, systemPrompt |-> <<>>, maxHistory |-> Undefined]

AdapterSpec == AdapterInit /\ [][AdapterNext]_vars

\* ================================================================= claims
\* the user message send(p) pushes
UserMsg(p) == Msg("user", p)

\* C1: if send(p2) is called with a non-blank prompt while an earlier send
\* is still pending, the earlier request is cancelled and a fresh request
\* for p2 is started (its user message appended, a new call issued), and
\* the error field stays unset.  Stated of the state right after the call.
C1_SupersedeOnReentry ==
    (last.op = "send" /\ Trim(last.prompt) # <<>> /\ last.wasPending) =>
        /\ last.r # 0
        /\ req[last.r].pc = "fetch"
        /\ messages # <<>>
        /\ messages[Len(messages)] = UserMsg(last.prompt)
        /\ \A q \in Reqs : (q # last.r /\ Running(q)) => req[q].aborted
        /\ error = Null

\* C2: in every reachable state at most one request is in flight (one call
\* of send between its guard and its finally block, and so at most one
\* transport that is open and not aborted), and no request has changed the
\* message list after a later request had started.
C2_AtMostOneInFlight ==
    /\ Cardinality({r \in Reqs : Running(r)}) <= 1
    /\ Cardinality({r \in Reqs : Running(r) /\ ~req[r].aborted}) <= 1
    /\ pending <=> (\E r \in Reqs : Running(r))
    /\ \A r \in Reqs : ~req[r].late

\* a second request streams into its slot after the first one has ended
C2_Witness ==
    /\ nreq >= 2
    /\ Running(nreq)
    /\ req[nreq].raw # <<>>
    /\ Len(messages) >= 4

\* C3: right after reset() returns the message list is exactly the
\* configured system prompt (or empty when none is configured), the error
\* field is null, and every request still pending has been aborted.
C3_ResetPostcondition ==
    last.op = "reset" =>
        /\ messages = (IF opts.systemPrompt # <<>>
                       THEN <<[role |-> "system", content |-> opts.systemPrompt]>>
                       ELSE <<>>)
        /\ error = Null
        /\ \A r \in Reqs : Running(r) => req[r].aborted

\* reset() was called while a request was reading its stream
C3_Witness ==
    /\ last.op = "reset"
    /\ last.wasPending
    /\ \E r \in Reqs : req[r].pc = "read" /\ req[r].aborted /\ req[r].raw # <<>>
    /\ opts.systemPrompt # <<>>

\* C4: when a pending request is cancelled, the session returns to idle
\* (pending false) with the error field left unset, and the step leaves the
\* message list as it is.  Stated of the step in which an aborted request
\* ends.
C4_CancelledEndsSilently ==
    [][(\E r \in Reqs : Running(r) /\ req[r].aborted /\ req'[r].pc = "done") =>
           (pending' = FALSE /\ error' = Null /\ messages' = messages)]_vars

\* C5, as claimed: a request that ends in a genuine failure leaves pending
\* false and the error set; when it failed before any response content was
\* received the list has gained nothing but the user's prompt, and otherwise
\* what was appended is still in place.
C5_FailureAsClaimed ==
    last.op = "failed" =>
        LET rq == req[last.r] IN
        /\ ~pending
        /\ error # Null
        /\ rq.got = 0 => messages = Append(rq.before, UserMsg(rq.prompt))
        /\ rq.got > 0 => messages = Append(rq.before, UserMsg(rq.prompt))
                                        \o <<Msg("assistant", rq.raw)>>

\* C5, amended: a request that ends in a genuine failure leaves pending
\* false and the error set; the list has gained the user's prompt and, when
\* stream is set and a response with a success status had arrived, the
\* reserved assistant slot holding exactly what was appended before the
\* failure (nothing, when it failed before the first chunk).
C5_FailureAmended ==
    last.op = "failed" =>
        LET rq == req[last.r] IN
        /\ ~pending
        /\ error # Null
        /\ (rq.idx > 0) <=> (opts.stream /\ Ok(rq.status))
        /\ messages = Append(rq.before, UserMsg(rq.prompt))
                          \o (IF rq.idx > 0 THEN <<Msg("assistant", rq.raw)>> ELSE <<>>)

\* a stream failed after part of its text had been appended
C5_Witness ==
    /\ last.op = "failed"
    /\ req[last.r].raw # <<>>
    /\ req[last.r].got < Len(req[last.r].body)

\* what the read loop appends over a whole body taken at once: the body
\* decoded, split into events, the last piece (no separator after it) left
\* out, every line of every event parsed in order
WholeBodyText(body) ==
    LET events == SplitEvents(Decode(<<>>, body).text)
    IN  EventsText(SubSeq(events, 1, Len(events) - 1))

\* C6: when a streaming request whose response is an event stream ends
\* naturally, the reserved slot holds the post-processed concatenation, in
\* order, of the non-empty payloads of the data lines of the complete events
\* of the whole body, however the body was cut into chunks, and the rest of
\* the list is as the request found it.
C6_StreamedContent ==
    (last.op = "success" /\ req[last.r].hasBody /\ IsEventStream(req[last.r].ctype)) =>
        LET rq == req[last.r] IN
        messages = Append(rq.before, UserMsg(rq.prompt))
                       \o <<Msg("assistant", postProcessMarkdown(WholeBodyText(rq.body)))>>

\* payloads "Hel", "lo" and the sentinel have given "Hello" and a newline
C6_Witness ==
    /\ last.op = "success"
    /\ req[last.r].body = BodyHello
    /\ messages[Len(messages)] = Msg("assistant", <<"Hel", "lo", "\n">>)

\* C7: a successful non-streaming send appends the user's prompt followed by
\* exactly one assistant message, whose content is the post-processed answer
\* of the backend (empty text when it has none); the assistant message is
\* pushed once, and not before the response is there.
C7_NonStreamingAnswer ==
    /\ (last.op = "success" /\ ~opts.stream) =>
           LET rq == req[last.r] IN
           /\ messages = rq.before \o <<UserMsg(rq.prompt),
                                        Msg("assistant", postProcessMarkdown(rq.answer))>>
           /\ rq.pushes = 2
    /\ \A r \in Reqs :
           (~opts.stream /\ req[r].pc = "fetch" /\ ~req[r].aborted) =>
               /\ messages = Append(req[r].before, UserMsg(req[r].prompt))
               /\ req[r].pushes = 1

\* the backend's "hi there" has become one assistant message
C7_Witness ==
    /\ last.op = "success"
    /\ ~opts.stream
    /\ messages[Len(messages)] = Msg("assistant", <<"hi there", "\n">>)

\* C8: a streaming request that ends naturally has called the
\* post-processing once, at its end: while it is still reading, the slot
\* holds the text appended so far as it came; when it has ended, the slot
\* holds that text post-processed; and no request calls it twice.
C8_FinalizedOnce ==
    \A r \in Reqs :
        LET rq == req[r] IN
        /\ rq.finals <= 1
        /\ Running(r) => rq.finals = 0
        /\ (rq.pc \in {"read", "fallback"} /\ ~rq.aborted) =>
               messages[rq.idx].content = rq.raw
        /\ (last.op = "success" /\ last.r = r /\ opts.stream) =>
               /\ rq.finals = 1
               /\ messages[rq.idx].content = postProcessMarkdown(rq.raw)

\* a stream that left a code fence open has ended and the fence is closed
C8_Witness ==
    /\ last.op = "success"
    /\ req[last.r].hasBody
    /\ req[last.r].finals = 1
    /\ FenceCount(req[last.r].raw) = 1
    /\ FenceCount(messages[req[last.r].idx].content) = 2

\* C9: every send that got past the guard leaves the pending state: its
\* call ends, and pending is false again.
C9_EverySendEnds ==
    /\ \A r \in Reqs : Running(r) ~> (req[r].pc = "done")
    /\ pending ~> ~pending

\* one call has ended aborted and a later one with success, pending false
C9_Witness ==
    /\ ~pending
    /\ \E r, q \in Reqs : req[r].outcome = "aborted" /\ req[q].outcome = "success"

\* the last n entries of h, none when n is 0
LastN(h, n) == SubSeq(h, Len(h) - Min(n, Len(h)) + 1, Len(h))

\* C10: for every send and every configured maximum N (10 when none is
\* configured) the history sent has no system message, has at most N
\* entries, and is the last N non-system messages the list held before the
\* prompt was appended.  Stated of the state right after the call.
C10_HistoryWindow ==
    (last.op = "send" /\ last.r # 0) =>
        LET rq == req[last.r]
            N == IF opts.maxHistory = Undefined THEN DefaultMaxHistory
                 ELSE opts.maxHistory
        IN  /\ \A i \in 1..Len(rq.tail) : rq.tail[i].role # "system"
            /\ Len(rq.tail) <= N
            /\ rq.tail = LastN(NonSystem(rq.before), N)

\* C11: whatever the buffer and however it is cut into chunks, the events
\* the read loop has taken off the buffer, followed by the remainder it
\* carries, are the pieces of one split of all the text received so far.
C11_ChunkInvariance ==
    \A r \in Reqs :
        (req[r].pc = "read" /\ IsEventStream(req[r].ctype)) =>
            req[r].frames \o <<req[r].buffered>>
                = SplitEvents(Decode(<<>>, SubSeq(req[r].body, 1, req[r].got)).text)

\* an event has been taken off, and the last cut fell between the two line
\* feeds of the next separator
C11_Witness ==
    \E r \in Reqs :
        /\ req[r].pc = "read" /\ last.op = "chunk"
        /\ Len(req[r].frames) >= 1
        /\ req[r].buffered # <<>> /\ req[r].buffered[Len(req[r].buffered)] = "\n"
        /\ req[r].wire # <<>> /\ Head(req[r].wire) = "\n"

\* the parseSSELine calls made so far, by any call of send()
ParseCalls == UNION {{req[r].parsed[i] : i \in 1..Len(req[r].parsed)} : r \in Reqs}

\* the line is a data line, and what follows its field name, trimmed
IsDataLine(line) == Trim(line) # <<>> /\ Head(Trim(line)) = "data:"
PayloadOf(line) == Trim(Tail(Trim(line)))

\* the spellings of the sentinel among the payloads
SentinelSpellings == {<<"[DONE]">>, <<"[done]">>, <<"[Done]">>}

\* C17: parseSSELine returns null (absent) for every line that, trimmed,
\* does not begin with the field name data:, and the empty text (empty) for
\* every data line whose trimmed payload is empty or is the sentinel in any
\* letter case.
C17_AbsentAndEmpty ==
    \A c \in ParseCalls :
        /\ ~IsDataLine(c.line) => c.result = JNull
        /\ (IsDataLine(c.line)
              /\ (PayloadOf(c.line) = <<>> \/ PayloadOf(c.line) \in SentinelSpellings))
               => c.result = JStr(<<>>)

\* the text the claim expects of a parsed object: that of the first of
\* delta.content, delta, content and answer the object has
HasField(v) == v.k # "undefined"
ClaimedText(doc) ==
    IF doc.delta.k = "object" /\ doc.delta.hasContent THEN doc.delta.content
    ELSE IF HasField(doc.delta) THEN doc.delta.s
    ELSE IF HasField(doc.content) THEN doc.content.s
    ELSE doc.answer.s

\* C18: for a data line whose payload is a JSON object with one or more of
\* delta.content, delta, content and answer, parseSSELine returns the text
\* of the first of them the object has, in that order; for a payload that
\* is not valid JSON it returns the payload itself.
C18_FieldPriority ==
    \A c \in ParseCalls :
        (IsDataLine(c.line) /\ PayloadOf(c.line) # <<>>
            /\ PayloadOf(c.line) \notin SentinelSpellings) =>
            LET payload == PayloadOf(c.line) IN
            IF ~JsonParses(payload) THEN c.result = JStr(payload)
            ELSE LET doc == JsonTable[payload[1]] IN
                 (doc.top = "object"
                    /\ (HasField(doc.delta) \/ HasField(doc.content) \/ HasField(doc.answer)))
                     => c.result = JStr(ClaimedText(doc))

\* the content of the assistant slot of call r
SlotOf(r) == messages[req[r].idx].content

\* C19: post-processing is idempotent.  When a call ends with success its
\* slot holds the post-processed text; post-processing the slot again gives
\* the slot.
C19_Idempotent ==
    last.op = "success" => postProcessMarkdown(SlotOf(last.r)) = SlotOf(last.r)

\* a text with an open fence and no final newline was post-processed
C19_Witness ==
    /\ last.op = "success"
    /\ FenceCount(req[last.r].raw) = 1 /\ ~EndsWithNewline(req[last.r].raw)
    /\ SlotOf(last.r) # req[last.r].raw

IsPrefix(x, y) == Len(x) <= Len(y) /\ SubSeq(y, 1, Len(x)) = x
Odd(n) == n % 2 = 1
ClosingFence == <<"\n", BT, BT, BT>>
\* what y has after its prefix x
Added(x, y) == SubSeq(y, Len(x) + 1, Len(y))

\* C20 as claimed: the post-processed text y of x has x as a prefix and an
\* even number of fences, and ends with exactly one newline; a closing fence
\* on a line of its own is added if and only if x has an odd number of
\* fences, and with an even number y is x but for the final newline.
C20_FinalizeAsClaimed ==
    last.op = "success" =>
        LET x == req[last.r].raw
            y == SlotOf(last.r)
        IN  /\ IsPrefix(x, y)
            /\ ~Odd(FenceCount(y))
            /\ EndsWithNewline(y)
            /\ ~EndsWithNewline(SubSeq(y, 1, Len(y) - 1))
            /\ Odd(FenceCount(x)) <=> IsPrefix(ClosingFence, Added(x, y))
            /\ ~Odd(FenceCount(x)) => Added(x, y) \in {<<>>, <<"\n">>}

\* C20 amended: y ends with a newline, one being added only when x, with its
\* closing fence if it got one, does not end with a newline already; the
\* newlines x ends with are kept.
C20_FinalizeAmended ==
    last.op = "success" =>
        LET x == req[last.r].raw
            y == SlotOf(last.r)
        IN  /\ IsPrefix(x, y)
            /\ ~Odd(FenceCount(y))
            /\ EndsWithNewline(y)
            /\ Odd(FenceCount(x)) <=> IsPrefix(ClosingFence, Added(x, y))
            /\ Odd(FenceCount(x)) => Added(x, y) = ClosingFence \o <<"\n">>
            /\ ~Odd(FenceCount(x)) =>
                   Added(x, y) = IF EndsWithNewline(x) THEN <<>> ELSE <<"\n">>

\* a text with two fences and two final newlines was post-processed
C20_Witness ==
    /\ last.op = "success"
    /\ FenceCount(req[last.r].raw) = 2
    /\ Len(req[last.r].raw) >= 2
    /\ EndsWithNewline(req[last.r].raw)
    /\ EndsWithNewline(SubSeq(req[last.r].raw, 1, Len(req[last.r].raw) - 1))

\* the handler has ended after the backend answered with a failure status
BackendFailed == srv.pc = "done" /\ srv.up.status # 0 /\ ~Ok(srv.up.status)
\* nothing of a stream has gone out: no header, no write, no end
NothingStreamed == srv.ctype = "" /\ srv.writes = <<>> /\ ~srv.ended
\* the handler returned {error} with a status that is not a success
ErrorResult ==
    srv.returned = "value" /\ Truthy(srv.result.error) /\ ~Ok(srv.statusCode)

C13_BackendStatusCarried ==
    BackendFailed =>
        /\ srv.statusCode = srv.up.status
        /\ srv.result.error.s \in
               {<<"OpenAI error: ">> \o Truncate(TextOf(srv.up.body)), <<"OpenAI error: ">>}

\* C14: without credential the handler returns {error} and never calls the
\* backend; with it, it calls the backend once for the request, however
\* many reads the response takes.
C14_KeyThenOneCall ==
    /\ ~config.openaiApiKey =>
           /\ srv.calls = 0 /\ srv.pc \in {"idle", "done"}
           /\ srv.pc = "done" => ErrorResult /\ NothingStreamed
    /\ (config.openaiApiKey /\ srv.pc # "idle") => srv.calls = 1

\* a streamed answer of several writes came from one call
C14_Witness ==
    /\ config.openaiApiKey /\ srv.pc = "done" /\ srv.returned = "null"
    /\ Len(srv.writes) >= 4 /\ srv.calls = 1

RECURSIVE Flatten(_)
\* the bytes of the outgoing stream
Flatten(writes) ==
    IF writes = <<>> THEN <<>> ELSE Head(writes) \o Flatten(Tail(writes))

\* the frames of the outgoing stream, and what follows the last separator
OutPieces == SplitEvents(Flatten(srv.writes))
OutFrames == SubSeq(OutPieces, 1, Len(OutPieces) - 1)
SentinelFrame == <<"data:", " ", "[DONE]">>
CountOf(x, seq) == Cardinality({i \in 1..Len(seq) : seq[i] = x})
EndsWithSentinel ==
    /\ OutFrames # <<>> /\ OutFrames[Len(OutFrames)] = SentinelFrame
    /\ OutPieces[Len(OutPieces)] = <<>>

\* a streaming request whose backend stream ended normally
StreamedToEnd ==
    srv.pc = "done" /\ srv.stream /\ srv.returned = "null" /\ Ok(srv.up.status)

StreamOpened ==
    \/ srv.pc \in {"relay", "jsontext", "lines"}
    \/ srv.pc = "done" /\ srv.stream /\ Ok(srv.up.status)

\* C16: once the outgoing stream is opened, for each of the three kinds of
\* backend response, the first write is the keep-alive comment; nothing is
\* written before it and the handler writes it once.
C16_KeepAliveFirst ==
    /\ srv.writes # <<>> => srv.writes[1] = Ping
    /\ srv.pings <= 1
    /\ StreamOpened => srv.writes # <<>> /\ srv.pings = 1

\* a relayed event stream of several chunks, behind the keep-alive
C16_Witness ==
    /\ StreamedToEnd /\ IsEventStream(srv.up.ctype)
    /\ Len(srv.writes) >= 3 /\ srv.writes[1] = Ping /\ srv.writes[2] # Ping

\* C21: a call of send() that has been aborted and is still suspended at an
\* await changes nothing of the list when it resumes: it pushes nothing and
\* hands no text to appendToMessage, whatever it had received or holds in
\* its buffer; the list reset() established stays as it is.
C21_NoAppendAfterCancel ==
    [][\A r \in Reqs :
          (req[r].aborted /\ Running(r) /\ req'[r] # req[r]) =>
              /\ messages' = messages
              /\ req'[r].pushes = req[r].pushes
              /\ req'[r].raw = req[r].raw]_vars

\* a call aborted by reset() in the middle of its body has ended, and the
\* list is the one reset() established
C21_Witness ==
    /\ last.op = "aborted" /\ req[last.r].aborted
    /\ req[last.r].got > 0 /\ req[last.r].got < Len(req[last.r].body)
    /\ req[last.r].raw # <<>>
    /\ messages = InitialMessages(opts)

\* C22: once the client has cancelled a streaming request, the handler
\* reads nothing more of the backend response, writes no further frame and
\* no sentinel, and does nothing but end.
C22_CancelPropagates ==
    [][(srv.gone /\ srv'.gone) =>
          /\ srv'.wire = srv.wire
          /\ srv'.writes = srv.writes
          /\ srv'.sentinels = srv.sentinels
          /\ srv'.pc \in {srv.pc, "done"}]_vars

\* the messages of the list keep their place and role and their content
\* only grows
Kept ==
    /\ Len(messages') >= Len(messages)
    /\ \A i \in 1..Len(messages) :
           /\ messages'[i].role = messages[i].role
           /\ IsPrefix(messages[i].content, messages'[i].content)

\* the places whose content changes
Grown == {i \in 1..Len(messages) : messages'[i].content # messages[i].content}

\* C23: in every step other than reset() the list changes only by one push
\* at its end or by growth of the content of the slot of the running
\* streaming call: nothing is removed or reordered, no role changes, the
\* old content is a prefix of the new.  A streaming call reserves its slot
\* once, on a response with a success status and before any content, as an
\* empty assistant message at the end, and keeps that index.
C23_AppendOnly ==
    [][last'.op # "reset" =>
          /\ Kept
          /\ Len(messages') <= Len(messages) + 1
          /\ Len(messages') > Len(messages) => Grown = {}
          /\ \A i \in Grown :
                 \E r \in Reqs : /\ Running(r) /\ opts.stream /\ r = nreq
                                  /\ req[r].idx = i /\ last'.r = r
          /\ \A r \in Reqs :
                 /\ (req[r].idx = 0 /\ req'[r].idx # 0) =>
                        /\ Ok(req'[r].status) /\ req[r].raw = <<>>
                        /\ messages' = Append(messages, Msg("assistant", <<>>))
                        /\ req'[r].idx = Len(messages')
                 /\ (req[r].idx # 0 /\ last'.op # "send") =>
                        req'[r].idx = req[r].idx /\ req'[r].pushes = req[r].pushes]_vars

\* the reserved slot, last of the list, has grown by a second chunk
C23_Witness ==
    /\ last.op = "chunk" /\ req[last.r].idx = Len(messages)
    /\ Len(req[last.r].raw) >= 2
    /\ messages[Len(messages)].content = req[last.r].raw
    /\ req[last.r].got < Len(req[last.r].body)

\* the pieces of the whole decoded body of call r: its events, and last
\* what follows the last separator
BodyPieces(r) == SplitEvents(Decode(<<>>, req[r].body).text)
Unterminated(r) == BodyPieces(r)[Len(BodyPieces(r))]

\* C24: when the read loop of an event-stream response ends at the end of
\* data, the text handed to the slot is that of the events followed by a
\* separator, and what was left in the buffer has added nothing.
C24_RemainderDropped ==
    \A r \in Reqs :
        (req[r].outcome = "success" /\ req[r].hasBody /\ IsEventStream(req[r].ctype)
            /\ last.r = r /\ last.op = "success") =>
            /\ req[r].frames = SubSeq(BodyPieces(r), 1, Len(BodyPieces(r)) - 1)
            /\ req[r].raw = EventsText(req[r].frames)
            /\ SlotOf(r) = postProcessMarkdown(EventsText(req[r].frames))

\* the body ended with a data line that no separator followed
C24_Witness ==
    /\ last.op = "success" /\ req[last.r].hasBody
    /\ IsEventStream(req[last.r].ctype)
    /\ EventsText(<<Unterminated(last.r)>>) # <<>>
    /\ req[last.r].raw # <<>>

\* the parsed payload has none of delta, content and answer
NoTextField(doc) == ~HasField(doc.delta) /\ ~HasField(doc.content) /\ ~HasField(doc.answer)

\* the call has ended with success on a body that is the one data frame the
\* handler's text loop writes for the line payload
FramedLineDone(r, payload) ==
    /\ last.op = "success" /\ last.r = r
    /\ req[r].body = DataFrame(payload)

\* C25 as claimed: a data line whose payload parses as JSON and has none of
\* the text fields gives the empty text, and the frame the handler writes
\* for such a line adds nothing to the slot.
C25_NoFieldAsClaimed ==
    /\ \A c \in ParseCalls :
           (IsDataLine(c.line) /\ JsonParses(PayloadOf(c.line))
               /\ NoTextField(JsonTable[PayloadOf(c.line)[1]])) =>
               c.result = JStr(<<>>)
    /\ \A r \in Reqs, tok \in DOMAIN JsonTable :
           (FramedLineDone(r, <<tok>>) /\ NoTextField(JsonTable[tok])) =>
               req[r].raw = <<>> /\ SlotOf(r) = <<"\n">>

\* C25 amended: the same for every such payload but null; for null the
\* call returns the payload and the slot gets the text null.
C25_NoFieldAmended ==
    /\ \A c \in ParseCalls :
           (IsDataLine(c.line) /\ JsonParses(PayloadOf(c.line))
               /\ NoTextField(JsonTable[PayloadOf(c.line)[1]])) =>
               c.result = IF JsonTable[PayloadOf(c.line)[1]].top = "null"
                          THEN JStr(PayloadOf(c.line)) ELSE JStr(<<>>)
    /\ \A r \in Reqs, tok \in DOMAIN JsonTable :
           (FramedLineDone(r, <<tok>>) /\ NoTextField(JsonTable[tok])) =>
               IF JsonTable[tok].top = "null"
               THEN req[r].raw = <<tok>> /\ SlotOf(r) = <<tok, "\n">>
               ELSE req[r].raw = <<>> /\ SlotOf(r) = <<"\n">>

\* the framed line 42 was read to its end and the slot holds no text of it
C25_Witness ==
    /\ FramedLineDone(last.r, <<"42">>)
    /\ Len(req[last.r].parsed) = 1
    /\ SlotOf(last.r) = <<"\n">>

====
